---- MODULE Spec2Model ----
(***************************************************************************)
(* A model of pg-page: the page free-space allocator (Page::reserve_tuple  *)
(* and PageLazy::reserve_tuple) and the multi-page stream reader           *)
(* (PageReader, PageReaderIter).                                           *)
(*                                                                         *)
(* Integers are modelled with their Rust width.  A u16 operation that      *)
(* leaves 0..65535 panics when the crate is built with overflow checks     *)
(* (the dev profile) and wraps modulo 2^16 otherwise (the release          *)
(* profile); the profile is the variable overflow_checks, chosen in Init.  *)
(***************************************************************************)
EXTENDS Integers, Sequences, FiniteSets, TLC

VARIABLES
    overflow_checks, \* build profile: TRUE = arithmetic overflow panics, FALSE = it wraps
    page,            \* a Page: header_data, item_id_data, items, special
    lazy,            \* a PageLazy: header_data, data
    calls,           \* number of reserve_tuple calls made so far
    panicked,        \* TRUE once a call has panicked (the thread is gone)
    last,            \* record of the last reserve_tuple call: target, argument, header before, result
    file,            \* the byte source of the PageReader: pages and a truncated tail
    pos,             \* position of the underlying source (BufReader<R>)
    cursor,          \* PageReader.cursor, as its i64 reinterpretation (negative = u64 above 2^63)
    ended,           \* PageReader.ended
    mode,            \* "reader": PageReader in hand; "iter": consumed by into_iter
    filter,          \* PageReaderIter.filter
    faulted,         \* the source has produced an I/O failure (it produces at most one)
    yielded,         \* the items PageReaderIter::next has returned so far
    rlast,           \* record of the last reader operation
    ops,             \* number of reader operations made so far
    trace,           \* what the last PageReaderIter::next did: the hook call, then the header reads
    raw,             \* the byte source handed to from_reader: the bytes of one page
    eager,           \* the result of Page::from_reader on raw, once called
    lzy,             \* the result of PageLazy::from_reader on raw, once called
    iter,            \* the PageLazyTuplesIter in hand: its cursor, how its last step ended and where it began
    out,             \* the items the iterator in hand has yielded
    before,          \* the items the iterator before it had yielded
    nexts,           \* number of PageLazyTuplesIter::next calls made so far
    codec            \* record of the last encode / decode call on a value

allocVars == <<page, lazy, calls, panicked, last>>
readerVars == <<file, pos, cursor, ended, mode, filter, faulted, yielded, rlast, ops, trace>>
pageVars == <<raw, eager, lzy, iter, out, before, nexts, codec>>
vars == <<overflow_checks, page, lazy, calls, panicked, last,
          file, pos, cursor, ended, mode, filter, faulted, yielded, rlast, ops, trace,
          raw, eager, lzy, iter, out, before, nexts, codec>>

----------------------------------------------------------------------------
(* Bounds of the model *)

MaxCalls == 3

\* payload sizes handed to reserve_tuple (u16): small ones, the ones around
\* the free space of an empty 8192-byte page, and the ones around u16::MAX
DataSizes == {0, 1, 4000, 8162, 8163, 65529, 65530, 65535}

----------------------------------------------------------------------------
(* Byte sizes declared by the ByteEncoded implementations *)

\* ByteEncoded::byte_size, the trait's default
ByteEncoded_byte_size == 0
\* HeapTupleHeaderData does not override byte_size: it is the trait's default
HeapTupleHeaderData_byte_size == ByteEncoded_byte_size
ItemPointerData_byte_size == 6
ItemIdData_byte_size == 4
PageHeaderData_byte_size == 24

----------------------------------------------------------------------------
(* u16 arithmetic: the value modulo 2^16 and whether it overflowed *)

U16Add(a, b) == [v |-> (a + b) % (2^16), of |-> a + b >= 2^16]
U16Sub(a, b) == [v |-> (a - b) % (2^16), of |-> a - b < 0]

----------------------------------------------------------------------------
(* The byte codec (ByteEncoded).  A byte vector is a sequence of 0..255,   *)
(* indexed from 0 as in the source.  A u8 and a u16 are integers; a u32 is *)
(* held as its two 16-bit limbs <<low, high>> and a u64 as its four limbs, *)
(* low limb first.  A call returns Ok(v), Err(kind) or panics.             *)

Ok(v) == [v |-> v, res |-> "Ok", err |-> "none"]
Err(e) == [v |-> <<>>, res |-> "Err", err |-> e]
Panicked == [v |-> <<>>, res |-> "Panic", err |-> "none"]

\* bytes[start..end)
Sub(bytes, start, end) == SubSeq(bytes, start + 1, end)

\* GetByteSliceExt::get_byte_slice: self.get(start..end) or NotEnoughBytes
get_byte_slice(bytes, start, end) ==
    IF start <= end /\ end <= Len(bytes) THEN Ok(Sub(bytes, start, end))
    ELSE Err("NotEnoughBytes")

\* &bytes[start..end]: panics when the range is not inside the slice
Index(bytes, start, end) ==
    IF start <= end /\ end <= Len(bytes) THEN Ok(Sub(bytes, start, end))
    ELSE Panicked

\* Read::read_exact of n bytes at position p of a byte source
read_exact(bytes, p, n) ==
    IF p + n <= Len(bytes) THEN Ok(Sub(bytes, p, p + n)) ELSE Err("IoError")

\* to_le_bytes and from_le_bytes
\* (the big-endian order, which from_le_bytes does not invert)
u16_to_be_bytes(x) == <<x \div 256, x % 256>>
u16_to_le_bytes(x) == <<x % 256, x \div 256>>
u16_from_le_bytes(b) == b[1] + 256 * b[2]
u32_to_le_bytes(x) == u16_to_le_bytes(x[1]) \o u16_to_le_bytes(x[2])
u32_from_le_bytes(b) == <<u16_from_le_bytes(Sub(b, 0, 2)), u16_from_le_bytes(Sub(b, 2, 4))>>
u64_to_le_bytes(x) ==
    u16_to_le_bytes(x[1]) \o u16_to_le_bytes(x[2]) \o u16_to_le_bytes(x[3])
        \o u16_to_le_bytes(x[4])
u64_from_le_bytes(b) ==
    <<u16_from_le_bytes(Sub(b, 0, 2)), u16_from_le_bytes(Sub(b, 2, 4)),
      u16_from_le_bytes(Sub(b, 4, 6)), u16_from_le_bytes(Sub(b, 6, 8))>>

\* read_u64 .. read_u8: buf.copy_from_slice(bytes) panics unless the lengths are equal
read_u64(bytes) == IF Len(bytes) = 8 THEN Ok(u64_from_le_bytes(bytes)) ELSE Panicked
read_u32(bytes) == IF Len(bytes) = 4 THEN Ok(u32_from_le_bytes(bytes)) ELSE Panicked
read_u16(bytes) == IF Len(bytes) = 2 THEN Ok(u16_from_le_bytes(bytes)) ELSE Panicked
read_u8(bytes) == IF Len(bytes) = 1 THEN Ok(bytes[1]) ELSE Panicked

u64_encode(x) == u64_to_le_bytes(x)
u64_decode(bytes) == read_u64(bytes)
u32_encode(x) == u32_to_le_bytes(x)
u32_decode(bytes) == read_u32(bytes)
u16_encode(x) == u16_to_le_bytes(x)
u16_decode(bytes) == read_u16(bytes)
u8_encode(x) == <<x>>
u8_decode(bytes) == read_u8(bytes)

\* the first of the results that is not Ok, or Ok(v) when all are
Try(results, v) ==
    IF \E i \in DOMAIN results : results[i].res # "Ok"
    THEN results[CHOOSE i \in DOMAIN results :
                     /\ results[i].res # "Ok"
                     /\ \A j \in DOMAIN results : j < i => results[j].res = "Ok"]
    ELSE Ok(v)

BlockIdData_encode(x) == u16_encode(x.bi_hi) \o u16_encode(x.bi_lo)
BlockIdData_decode(bytes) ==
    LET hi == Index(bytes, 0, 2)
        bi_hi == IF hi.res = "Ok" THEN u16_decode(hi.v) ELSE hi
        lo == Index(bytes, 2, 4)
        bi_lo == IF lo.res = "Ok" THEN u16_decode(lo.v) ELSE lo
    IN Try(<<hi, bi_hi, lo, bi_lo>>, [bi_hi |-> bi_hi.v, bi_lo |-> bi_lo.v])

ItemPointerData_encode(x) == BlockIdData_encode(x.ip_blkid) \o u16_encode(x.ip_posid)
ItemPointerData_decode(bytes) ==
    LET blk == Index(bytes, 0, 4)
        ip_blkid == IF blk.res = "Ok" THEN BlockIdData_decode(blk.v) ELSE blk
        posb == Index(bytes, 4, 6)
        ip_posid == IF posb.res = "Ok" THEN u16_decode(posb.v) ELSE posb
    IN Try(<<blk, ip_blkid, posb, ip_posid>>, [ip_blkid |-> ip_blkid.v, ip_posid |-> ip_posid.v])

PageXLogRecPtr_encode(x) == u32_encode(x.xlogid) \o u32_encode(x.xrecoff)
PageXLogRecPtr_decode(bytes) ==
    LET a == Index(bytes, 0, 4)
        xlogid == IF a.res = "Ok" THEN u32_decode(a.v) ELSE a
        b == Index(bytes, 4, 8)
        xrecoff == IF b.res = "Ok" THEN u32_decode(b.v) ELSE b
    IN Try(<<a, xlogid, b, xrecoff>>, [xlogid |-> xlogid.v, xrecoff |-> xrecoff.v])

PageHeaderData_encode(h) ==
    PageXLogRecPtr_encode(h.pd_lsn) \o u16_encode(h.pd_checksum) \o u16_encode(h.pd_flags)
        \o u16_encode(h.pd_lower) \o u16_encode(h.pd_upper) \o u16_encode(h.pd_special)
        \o u16_encode(h.pd_pagesize_version) \o u32_encode(h.pd_prune_xid)

\* PageHeaderData::decode: the fields are read in turn from a Cursor over the bytes
PageHeaderData_decode(bytes) ==
    LET xlogid == read_exact(bytes, 0, 4)
        xrecoff == read_exact(bytes, 4, 4)
        pd_checksum == read_exact(bytes, 8, 2)
        pd_flags == read_exact(bytes, 10, 2)
        pd_lower == read_exact(bytes, 12, 2)
        pd_upper == read_exact(bytes, 14, 2)
        pd_special == read_exact(bytes, 16, 2)
        pd_pagesize_version == read_exact(bytes, 18, 2)
        pd_prune_xid == read_exact(bytes, 20, 4)
    IN Try(<<xlogid, xrecoff, pd_checksum, pd_flags, pd_lower, pd_upper, pd_special,
             pd_pagesize_version, pd_prune_xid>>,
           [pd_lsn |-> [xlogid |-> read_u32(xlogid.v).v, xrecoff |-> read_u32(xrecoff.v).v],
            pd_checksum |-> read_u16(pd_checksum.v).v,
            pd_flags |-> read_u16(pd_flags.v).v,
            pd_lower |-> read_u16(pd_lower.v).v,
            pd_upper |-> read_u16(pd_upper.v).v,
            pd_special |-> read_u16(pd_special.v).v,
            pd_pagesize_version |-> read_u16(pd_pagesize_version.v).v,
            pd_prune_xid |-> read_u32(pd_prune_xid.v).v])

\* PageHeaderData::encode_into_writer: write_all(&self.encode())
PageHeaderData_encode_into_writer(h, sink) == sink \o PageHeaderData_encode(h)

\* PageHeaderData::decode_from_reader: read_exact of 24 bytes, then decode
PageHeaderData_decode_from_reader(src) ==
    LET buf == read_exact(src, 0, 24)
    IN IF buf.res # "Ok" THEN buf ELSE PageHeaderData_decode(buf.v)

----------------------------------------------------------------------------
(* ItemIdData: the four bytes lp, bit-packed little-endian:                *)
(* bits 0..14 lp_off, bits 15..16 lp_flags, bits 17..31 lp_len             *)

ItemIdData_default == <<0, 0, 0, 0>>

lp_off(id) == id[1] + 256 * (id[2] % 128)
lp_flags(id) == (id[2] \div 128) + 2 * (id[3] % 2)
lp_len(id) == (id[3] \div 2) + 128 * id[4]

\* the setters keep the low bits of the value that fit the field
set_lp_off(id, v) ==
    LET w == v % (2^15)
    IN <<w % 256, (id[2] \div 128) * 128 + (w \div 256), id[3], id[4]>>
\* (a setter that rewrites bytes 1 and 2 whole, dropping the bits of lp_off and lp_len in them)
set_lp_flags_bytewise(id, v) ==
    LET w == v % 4
    IN <<id[1], 128 * (w % 2), w \div 2, id[4]>>
set_lp_flags(id, v) ==
    LET w == v % 4
    IN <<id[1], (id[2] % 128) + 128 * (w % 2), (id[3] \div 2) * 2 + (w \div 2), id[4]>>
set_lp_len(id, v) ==
    LET w == v % (2^15)
    IN <<id[1], id[2], (id[3] % 2) + 2 * (w % 128), w \div 128>>

ItemIdData_encode(id) == id

\* ItemIdData::decode: lp.copy_from_slice(bytes) panics unless there are 4 bytes
ItemIdData_decode(bytes) ==
    IF Len(bytes) = 4 THEN Ok(<<bytes[1], bytes[2], bytes[3], bytes[4]>>) ELSE Panicked

LpFlags(id) ==
    CASE lp_flags(id) = 0 -> "Unused"
      [] lp_flags(id) = 1 -> "Normal"
      [] lp_flags(id) = 2 -> "Redirect"
      [] OTHER -> "Dead"

----------------------------------------------------------------------------
(* The empty page the allocator starts from *)

EmptyPageSize == 8192

EmptyHeader ==
    [pd_lsn |-> [xlogid |-> <<0, 0>>, xrecoff |-> <<0, 0>>],
     pd_checksum |-> 0,
     pd_flags |-> 0,
     pd_lower |-> PageHeaderData_byte_size,
     pd_upper |-> EmptyPageSize,
     pd_special |-> EmptyPageSize,
     pd_pagesize_version |-> EmptyPageSize,
     pd_prune_xid |-> <<0, 0>>]

\* PageHeaderData::page_size: pd_pagesize_version & 0xFF00
page_size(h) == (h.pd_pagesize_version \div 256) * 256

\* a Vec<u8> kept sparsely: its length and its non-zero bytes
ZeroBytes(n) == [len |-> n, nz |-> <<>>]
ByteOf(d, i) == IF i \in DOMAIN d.nz THEN d.nz[i] ELSE 0

EmptyPage ==
    [header_data |-> EmptyHeader, item_id_data |-> <<>>, items |-> <<>>, special |-> "None"]
EmptyPageLazy ==
    [header_data |-> EmptyHeader,
     data |-> ZeroBytes(page_size(EmptyHeader) - PageHeaderData_byte_size)]

\* a PageLazy as from_reader builds it from a page whose slot array fills the
\* body up to two bytes before its end
NearFullPageLazy ==
    [header_data |-> [EmptyHeader EXCEPT !.pd_lower = EmptyPageSize - 26],
     data |-> ZeroBytes(page_size(EmptyHeader) - PageHeaderData_byte_size)]
LazyStarts == {EmptyPageLazy, NearFullPageLazy}

NoItem == <<>>

----------------------------------------------------------------------------
(* GetByteSliceExt: a range of a byte buffer, or NotEnoughBytes *)

\* get_byte_slice / get_byte_slice_mut: slice.get(start..end)
get_byte_slice_ok(d, start, end) == start <= end /\ end <= d.len

\* <[u8]>::copy_from_slice into d[start..end): the lengths must be equal
copy_from_slice_ok(start, end, src) == end - start = Len(src)
copy_from_slice(d, start, src) ==
    LET idx == {start + k - 1 : k \in 1..Len(src)}
        dom == (DOMAIN d.nz \ idx) \cup {i \in idx : src[i - start + 1] # 0}
    IN [d EXCEPT !.nz = [i \in dom |-> IF i \in idx THEN src[i - start + 1] ELSE d.nz[i]]]

----------------------------------------------------------------------------
(* HeapTupleHeaderData and Vec<ItemIdData> *)

\* HeapTupleHeaderData::encode: t_ctid is not written
HeapTupleHeaderData_encode(t) ==
    u32_encode(t.t_xmin) \o u32_encode(t.t_xmax) \o u32_encode(t.t_field3)
        \o u16_encode(t.t_infomask2) \o u16_encode(t.t_infomask) \o u8_encode(t.t_hoff)
        \o t.data

NoTuple ==
    [data |-> <<>>, t_xmin |-> <<0, 0>>, t_xmax |-> <<0, 0>>, t_field3 |-> <<0, 0>>,
     t_infomask2 |-> 0, t_infomask |-> 0, t_hoff |-> 0,
     t_ctid |-> [ip_blkid |-> [bi_hi |-> 0, bi_lo |-> 0], ip_posid |-> 0]]

\* one field of a decode: the slice, then the field's own decode
Field(slice, decode(_)) == IF slice.res = "Ok" THEN decode(slice.v) ELSE slice

HeapTupleHeaderData_decode(bytes) ==
    LET t_xmin == Field(get_byte_slice(bytes, 0, 4), u32_decode)
        t_xmax == Field(get_byte_slice(bytes, 4, 8), u32_decode)
        t_field3 == Field(get_byte_slice(bytes, 8, 12), u32_decode)
        t_ctid == Field(get_byte_slice(bytes, 12, 18), ItemPointerData_decode)
        t_infomask2 == Field(get_byte_slice(bytes, 18, 20), u16_decode)
        t_infomask == Field(get_byte_slice(bytes, 20, 22), u16_decode)
        t_hoff == Field(get_byte_slice(bytes, 22, 23), u8_decode)
        \* line 165: bytes.get(23..)
        data == IF 23 <= Len(bytes) THEN Ok(Sub(bytes, 23, Len(bytes)))
                ELSE Err("NotEnoughBytes")
    IN Try(<<t_xmin, t_xmax, t_field3, t_ctid, t_infomask2, t_infomask, t_hoff, data>>,
           [data |-> data.v, t_xmin |-> t_xmin.v, t_xmax |-> t_xmax.v,
            t_field3 |-> t_field3.v, t_infomask2 |-> t_infomask2.v,
            t_infomask |-> t_infomask.v, t_hoff |-> t_hoff.v, t_ctid |-> t_ctid.v])

\* Vec<ItemIdData>::decode: the length is a multiple of 4, each chunk is one element
VecItemIdData_decode(bytes) ==
    IF Len(bytes) % ItemIdData_byte_size # 0 THEN Err("InvalidSize")
    ELSE Ok([i \in 1..(Len(bytes) \div ItemIdData_byte_size) |->
                ItemIdData_decode(Sub(bytes, 4 * (i - 1), 4 * i)).v])

\* ItemIdData::is_normal
is_normal(id) == LpFlags(id) = "Normal"

----------------------------------------------------------------------------
(* Page::from_reader, PageLazy::from_reader and PageLazyTuplesIter         *)
(* A byte source is [head, body]: the bytes of the header as a sequence    *)
(* and the bytes that follow it, kept sparsely.                            *)

\* the bytes [start, end) of a sparse byte vector
Slice(d, start, end) == [i \in 1..(end - start) |-> ByteOf(d, start + i - 1)]

\* get_byte_slice on a Vec<u8> kept sparsely
get_byte_slice_of(d, start, end) ==
    IF get_byte_slice_ok(d, start, end) THEN Ok(Slice(d, start, end))
    ELSE Err("NotEnoughBytes")

\* a usize or u16 subtraction that went below zero: a panic with overflow
\* checks; without them the wrapped start lies beyond any buffer, so the
\* slice that uses it is refused
Underflowed(oc) == IF oc THEN Panicked ELSE Err("NotEnoughBytes")

\* lines 18-24 of both from_reader functions: the header, then page_size - 24 bytes
read_header_and_body(src) ==
    LET header_size == PageHeaderData_byte_size
        hb == read_exact(src.head, 0, header_size)
        hd == IF hb.res = "Ok" THEN PageHeaderData_decode(hb.v) ELSE hb
        psz == page_size(hd.v)
    IN IF hd.res # "Ok" THEN hd
       \* vec![0; page_size - header_size]: the subtraction overflows, or the
       \* wrapped length cannot be allocated
       ELSE IF psz < header_size THEN Panicked
       ELSE IF src.body.len < psz - header_size THEN Err("IoError")
       ELSE Ok([bytes |-> [len |-> psz - header_size,
                           nz |-> [i \in {j \in DOMAIN src.body.nz : j < psz - header_size}
                                      |-> src.body.nz[i]]],
                header_data |-> hd.v])

\* A tuple looked up at its page offset, the page header not taken off.
item_start_unadjusted(item_id) == lp_off(item_id)

\* line 35: item_id.lp_off() as usize - header_size
item_start(item_id) == lp_off(item_id) - PageHeaderData_byte_size

\* lines 29-39: the tuples of the Normal line pointers from the k-th on
RECURSIVE decode_items(_, _, _, _)
decode_items(bytes, ids, k, oc) ==
    IF k > Len(ids) THEN Ok(<<>>)
    ELSE LET item_id == ids[k]
             header_size == PageHeaderData_byte_size
             item_bytes ==
                 IF lp_off(item_id) < header_size THEN Underflowed(oc)
                 ELSE get_byte_slice_of(bytes, item_start(item_id),
                                        item_start(item_id) + lp_len(item_id))
             item == Field(item_bytes, HeapTupleHeaderData_decode)
             rest == decode_items(bytes, ids, k + 1, oc)
         IN IF ~is_normal(item_id) THEN rest
            ELSE IF item.res # "Ok" THEN item
            ELSE IF rest.res # "Ok" THEN rest
            ELSE Ok(<<item.v>> \o rest.v)

Page_from_reader(src, oc) ==
    LET header_size == PageHeaderData_byte_size
        hb == read_header_and_body(src)
        header_data == hb.v.header_data
        bytes == hb.v.bytes
        item_id_data_bytes ==
            IF header_data.pd_lower < header_size THEN Underflowed(oc)
            ELSE get_byte_slice_of(bytes, 0, header_data.pd_lower - header_size)
        item_id_data == Field(item_id_data_bytes, VecItemIdData_decode)
        items == decode_items(bytes, item_id_data.v, 1, oc)
    IN IF hb.res # "Ok" THEN hb
       ELSE IF item_id_data.res # "Ok" THEN item_id_data
       ELSE IF items.res # "Ok" THEN items
       ELSE Ok([header_data |-> header_data, item_id_data |-> item_id_data.v,
                items |-> items.v, special |-> "None"])

PageLazy_from_reader(src, oc) ==
    LET hb == read_header_and_body(src)
    IN IF hb.res # "Ok" THEN hb
       ELSE Ok([header_data |-> hb.v.header_data, data |-> hb.v.bytes])

\* PageLazy::iter_tuples
PageLazy_iter_tuples == [cursor |-> 0]

\* what a step of the iterator yields
YieldOk(item_id, item) == [err |-> "none", id |-> item_id, item |-> item, kind |-> "Ok"]
YieldErr(e) == [err |-> e, id |-> ItemIdData_default, item |-> NoTuple, kind |-> "Err"]

\* PageLazyTuplesIter::next: the iterator as the call leaves it, ret "Some",
\* "None" or "Panic", and the item yielded
Stepped(it, ret, y) == [it |-> it, ret |-> ret, y |-> y]

PageLazyTuplesIter_next(l, it, oc) ==
    LET header_size == PageHeaderData_byte_size
        limit == U16Sub(l.header_data.pd_lower, header_size)
        id_end == U16Add(it.cursor, ItemIdData_byte_size)
        id_bytes == get_byte_slice_of(l.data, it.cursor, id_end.v)
        item_id == Field(id_bytes, ItemIdData_decode)
        real_offset == U16Sub(lp_off(item_id.v), header_size)
        item_end == U16Add(real_offset.v, lp_len(item_id.v))
        item_bytes == get_byte_slice_of(l.data, real_offset.v, item_end.v)
        item == Field(item_bytes, HeapTupleHeaderData_decode)
        failed == Stepped(it, "Panic", YieldErr("none"))
    IN IF oc /\ limit.of THEN failed
       ELSE IF it.cursor >= limit.v THEN Stepped(it, "None", YieldErr("none"))
       ELSE IF oc /\ id_end.of THEN failed
       ELSE IF item_id.res = "Panic" THEN failed
       ELSE IF item_id.res = "Err" THEN Stepped(it, "Some", YieldErr(item_id.err))
       ELSE IF oc /\ (real_offset.of \/ item_end.of) THEN failed
       ELSE IF item.res = "Panic" THEN failed
       ELSE IF item.res = "Err" THEN Stepped(it, "Some", YieldErr(item.err))
       \* line 108: self.cursor += ItemIdData::byte_size()
       ELSE IF oc /\ id_end.of THEN failed
       ELSE Stepped([cursor |-> id_end.v], "Some", YieldOk(item_id.v, item.v))

----------------------------------------------------------------------------
(* Page::reserve_tuple and PageLazy::reserve_tuple                         *)
(* The result is the object as the call leaves it, the kind of outcome     *)
(* ("Some", "None", "Panic") and the ItemIdData returned.                  *)

Outcome(obj, kind, item) == [item |-> item, kind |-> kind, obj |-> obj]

\* line 49: HeapTupleHeaderData::byte_size() + data_size
tuple_size_of(data_size) == U16Add(HeapTupleHeaderData_byte_size, data_size)

\* line 51: what the free space is compared with
space_needed(tuple_size) == U16Add(tuple_size, ItemPointerData_byte_size)

\* lines 54-56: the line pointer of the new tuple
new_item_id(pd_upper, tuple_size) ==
    set_lp_len(set_lp_off(ItemIdData_default, U16Sub(pd_upper, tuple_size).v), tuple_size)

\* line 60: pd_lower += ItemPointerData::byte_size()
advance_lower(pd_lower) == U16Add(pd_lower, ItemPointerData_byte_size)

\* A bump allocator with neither the free-space check nor the assertion.
Page_reserve_tuple_unguarded(p, data_size, oc) ==
    LET h == p.header_data
        tuple_size == tuple_size_of(data_size).v
        item_id == new_item_id(h.pd_upper, tuple_size)
    IN Outcome([p EXCEPT !.item_id_data = Append(@, item_id),
                         !.header_data.pd_lower = advance_lower(h.pd_lower).v,
                         !.header_data.pd_upper = U16Sub(h.pd_upper, tuple_size).v],
               "Some", item_id)

Page_reserve_tuple(p, data_size, oc) ==
    LET h == p.header_data
        ts == tuple_size_of(data_size)
        tuple_size == ts.v
        gap == U16Sub(h.pd_upper, h.pd_lower)
        need == space_needed(tuple_size)
        off == U16Sub(h.pd_upper, tuple_size)
        item_id == new_item_id(h.pd_upper, tuple_size)
        p1 == [p EXCEPT !.item_id_data = Append(@, item_id)]
        nl == advance_lower(h.pd_lower)
        p2 == [p1 EXCEPT !.header_data.pd_lower = nl.v]
        p3 == [p2 EXCEPT !.header_data.pd_upper = off.v]
    IN IF oc /\ (ts.of \/ gap.of \/ need.of) THEN Outcome(p, "Panic", NoItem)
       ELSE IF gap.v < need.v THEN Outcome(p, "None", NoItem)
       ELSE IF oc /\ off.of THEN Outcome(p, "Panic", NoItem)
       ELSE IF oc /\ nl.of THEN Outcome(p1, "Panic", NoItem)
       \* line 63: assert!(pd_upper >= pd_lower)
       ELSE IF ~(p3.header_data.pd_upper >= p3.header_data.pd_lower)
            THEN Outcome(p3, "Panic", NoItem)
       ELSE Outcome(p3, "Some", item_id)

\* (a call that has already moved pd_lower when the slot bytes are refused)
slot_refused_header_moved(l, new_pd_lower) ==
    Outcome([l EXCEPT !.header_data.pd_lower = new_pd_lower], "None", NoItem)
\* line 51: `.ok()?` returns None before the header is touched
slot_refused(l, new_pd_lower) == Outcome(l, "None", NoItem)

PageLazy_reserve_tuple(l, data_size, oc) ==
    LET h == l.header_data
        ts == tuple_size_of(data_size)
        tuple_size == ts.v
        gap == U16Sub(h.pd_upper, h.pd_lower)
        need == space_needed(tuple_size)
        off == U16Sub(h.pd_upper, tuple_size)
        item_id == new_item_id(h.pd_upper, tuple_size)
        item_id_bytes == ItemIdData_encode(item_id)
        new_pd_lower == advance_lower(h.pd_lower)
        l1 == [l EXCEPT !.data = copy_from_slice(@, h.pd_lower, item_id_bytes)]
        l2 == [l1 EXCEPT !.header_data.pd_lower = new_pd_lower.v]
        l3 == [l2 EXCEPT !.header_data.pd_upper = off.v]
    IN IF oc /\ (ts.of \/ gap.of \/ need.of) THEN Outcome(l, "Panic", NoItem)
       ELSE IF gap.v < need.v THEN Outcome(l, "None", NoItem)
       ELSE IF oc /\ (off.of \/ new_pd_lower.of) THEN Outcome(l, "Panic", NoItem)
       \* line 51: get_byte_slice_mut(pd_lower, new_pd_lower).ok()?
       ELSE IF ~get_byte_slice_ok(l.data, h.pd_lower, new_pd_lower.v)
            THEN slot_refused(l, new_pd_lower.v)
       \* line 51: .copy_from_slice(&item_id_bytes)
       ELSE IF ~copy_from_slice_ok(h.pd_lower, new_pd_lower.v, item_id_bytes)
            THEN Outcome(l, "Panic", NoItem)
       ELSE IF ~(l3.header_data.pd_upper >= l3.header_data.pd_lower)
            THEN Outcome(l3, "Panic", NoItem)
       ELSE Outcome(l3, "Some", item_id)

----------------------------------------------------------------------------
(* The allocator as a state machine: reserve_tuple calls on one Page and   *)
(* on one PageLazy, both starting empty.                                   *)

NoCall == [item |-> NoItem, kind |-> "None", data_size |-> 0, target |-> "none",
           pre |-> EmptyHeader]

ReserveTuplePage ==
    /\ ~panicked /\ calls < MaxCalls
    /\ \E data_size \in DataSizes :
         LET r == Page_reserve_tuple(page, data_size, overflow_checks)
         IN /\ page' = r.obj
            /\ panicked' = (r.kind = "Panic")
            /\ last' = [item |-> r.item, kind |-> r.kind,
                        data_size |-> data_size, target |-> "page", pre |-> page.header_data]
    /\ calls' = calls + 1
    /\ UNCHANGED <<overflow_checks, lazy>>
    /\ UNCHANGED readerVars
    /\ UNCHANGED pageVars

ReserveTupleLazy ==
    /\ ~panicked /\ calls < MaxCalls
    /\ \E data_size \in DataSizes :
         LET r == PageLazy_reserve_tuple(lazy, data_size, overflow_checks)
         IN /\ lazy' = r.obj
            /\ panicked' = (r.kind = "Panic")
            /\ last' = [item |-> r.item, kind |-> r.kind,
                        data_size |-> data_size, target |-> "lazy", pre |-> lazy.header_data]
    /\ calls' = calls + 1
    /\ UNCHANGED <<overflow_checks, page>>
    /\ UNCHANGED readerVars
    /\ UNCHANGED pageVars

----------------------------------------------------------------------------
(* The byte source of the stream reader.                                   *)
(* A file is a sequence of segments [size, flags, have]: a page whose      *)
(* header declares page size `size` and pd_flags `flags`, of which `have`  *)
(* bytes are present (have < size only for a truncated last page).  All    *)
(* other header fields and all body bytes are zero.                        *)

MaxPages == 1
MaxIterPages == 5
MaxOps == 2

PageKinds == {[size |-> 256, flags |-> 0], [size |-> 512, flags |-> 1]}
TruncatedHave == {10, 100}
SeekOffsets == {0, 256}
RelativeOffsets == {-24, 256}
Filters == {"all", "flags0"}

Complete(k) == [size |-> k.size, flags |-> k.flags, have |-> k.size]

RECURSIVE SeqsUpTo(_, _)
SeqsUpTo(S, n) ==
    IF n = 0 THEN {<<>>}
    ELSE LET shorter == SeqsUpTo(S, n - 1)
         IN shorter \cup {Append(q, x) : q \in {r \in shorter : Len(r) = n - 1}, x \in S}

Files(n) ==
    LET whole == SeqsUpTo({Complete(k) : k \in PageKinds}, n)
    IN whole \cup {Append(q, [size |-> 256, flags |-> 0, have |-> t]) :
                     q \in whole, t \in TruncatedHave}

RECURSIVE FileLen(_)
FileLen(f) == IF f = <<>> THEN 0 ELSE Head(f).have + FileLen(Tail(f))

IsComplete(f) == \A i \in 1..Len(f) : f[i].have = f[i].size

\* the byte at offset r of a segment: pd_flags at 10..11, pd_pagesize_version at 18..19
SegByte(g, r) ==
    CASE r = 10 -> g.flags % 256
      [] r = 11 -> g.flags \div 256
      [] r = 18 -> g.size % 256
      [] r = 19 -> g.size \div 256
      [] OTHER -> 0

RECURSIVE ByteAt(_, _)
ByteAt(f, i) ==
    IF f = <<>> \/ i < 0 THEN 0
    ELSE IF i < Head(f).have THEN SegByte(Head(f), i)
    ELSE ByteAt(Tail(f), i - Head(f).have)

\* u16 and u32 decode: little-endian, a u32 as its limbs <<low, high>>
LE16(f, o) == ByteAt(f, o) + 256 * ByteAt(f, o + 1)
LE32(f, o) == <<LE16(f, o), LE16(f, o + 2)>>

\* PageHeaderData::decode of the 24 bytes at offset o
PageHeaderData_decode_at(f, o) ==
    [pd_lsn |-> [xlogid |-> LE32(f, o), xrecoff |-> LE32(f, o + 4)],
     pd_checksum |-> LE16(f, o + 8),
     pd_flags |-> LE16(f, o + 10),
     pd_lower |-> LE16(f, o + 12),
     pd_upper |-> LE16(f, o + 14),
     pd_special |-> LE16(f, o + 16),
     pd_pagesize_version |-> LE16(f, o + 18),
     pd_prune_xid |-> LE32(f, o + 20)]

\* the header predicates handed to the reader
filter_accepts(flt, h) ==
    IF flt = "all" THEN TRUE ELSE h.pd_flags = 0

----------------------------------------------------------------------------
(* PageReader                                                              *)
(* A handler takes the reader's fields st = [pos, cursor, ended] and       *)
(* returns them as the call leaves them, with res: "Ok", "Err", "Panic" or *)
(* "Diverge" (the call never returns), ret: "Some", "None" or "Unit", and  *)
(* the page returned.                                                      *)

NoPage == [len |-> 0, header_data |-> EmptyHeader, at |-> -1]
Ret(st, res, ret, pg) ==
    [page |-> pg, res |-> res, ret |-> ret, st |-> st, attempts |-> <<>>]

\* line 54: a header read starts with the cursor at c; attempts lists them in order
Attempted(c, r) == [r EXCEPT !.attempts = <<c>> \o @]

\* read_exact_with_eof: fill n bytes; None when the source ends first
read_exact_with_eof(f, p, n, fail) ==
    IF fail THEN [pos |-> p, r |-> "Err"]
    ELSE IF FileLen(f) - p >= n THEN [pos |-> p + n, r |-> "Some"]
    ELSE [pos |-> IF p > FileLen(f) THEN p ELSE FileLen(f), r |-> "None"]

\* self.cursor += n on a u64 held as its i64 view: overflow is the step from negative to >= 0
cursor_add(c, n) == [v |-> c + n, of |-> c < 0 /\ c + n >= 0]

\* PageReader::new
PageReader_new == [pos |-> 0, cursor |-> 0, ended |-> FALSE]

\* A seek that also puts an ended reader back to work.
PageReader_seek_reactivating(st, offset, fail) ==
    IF fail THEN Ret(st, "Err", "Unit", NoPage)
    ELSE Ret([pos |-> offset, cursor |-> offset, ended |-> FALSE], "Ok", "Unit", NoPage)

PageReader_seek(st, offset, fail) ==
    IF fail THEN Ret(st, "Err", "Unit", NoPage)
    ELSE Ret([st EXCEPT !.pos = offset, !.cursor = offset], "Ok", "Unit", NoPage)

\* BufReader::seek_relative fails when the position would become negative
PageReader_seek_relative(st, offset, fail) ==
    IF fail \/ st.pos + offset < 0 THEN Ret(st, "Err", "Unit", NoPage)
    ELSE Ret([st EXCEPT !.pos = st.pos + offset, !.cursor = st.cursor + offset],
             "Ok", "Unit", NoPage)

\* An error taken for the end of the stream.
swallowed_as_end(st) == Ret([st EXCEPT !.ended = TRUE], "Ok", "None", NoPage)

\* lines 55, 64, 70: the `?` on a failed header read, skip or body read
propagate(st) == Ret(st, "Err", "Unit", NoPage)

\* lines 55-58: no header left
on_header_eof(st) == Ret([st EXCEPT !.ended = TRUE], "Ok", "None", NoPage)

\* A truncated body that leaves the reader active.
on_body_eof_still_active(st) == Ret(st, "Ok", "None", NoPage)

\* lines 70-73: the body is cut short
on_body_eof(st) == Ret([st EXCEPT !.ended = TRUE], "Ok", "None", NoPage)

\* A filter test the wrong way round.
rejects_inverted(flt, h) == filter_accepts(flt, h)

\* line 63: !filter(&header_data)
rejects(flt, h) == ~filter_accepts(flt, h)

\* A skip that counts only the bytes it jumped over.
skipped_cursor_body_only(c, psz) == cursor_add(c, psz - PageHeaderData_byte_size)

\* line 65: self.cursor += page_size as u64, for a rejected page
skipped_cursor(c, psz) == cursor_add(c, psz)

\* line 74: self.cursor += page_size as u64, for a page read
read_cursor(c, psz) == cursor_add(c, psz)

RECURSIVE PageReader_read_next_page_filtered(_, _, _, _, _)
PageReader_read_next_page_filtered(f, st, flt, fault, oc) ==
    IF st.ended THEN Ret(st, "Ok", "None", NoPage)
    ELSE
    LET header_size == PageHeaderData_byte_size
        hr == read_exact_with_eof(f, st.pos, header_size, fault = "header")
        st1 == [st EXCEPT !.pos = hr.pos]
        header_data == PageHeaderData_decode_at(f, st.pos)
        psz == page_size(header_data)
        sc == skipped_cursor(st.cursor, psz)
        \* line 64: seek_relative((page_size - header_size) as i64)
        st2 == [st1 EXCEPT !.pos = @ + (psz - header_size)]
        br == read_exact_with_eof(f, st1.pos, psz - header_size, fault = "body")
        st3 == [st1 EXCEPT !.pos = br.pos]
        rc == read_cursor(st.cursor, psz)
    IN Attempted(st.cursor,
       IF hr.r = "Err" THEN propagate(st1)
       ELSE IF hr.r = "None" THEN on_header_eof(st1)
       ELSE IF rejects(flt, header_data) THEN
            \* page_size - header_size underflows a usize: a panic with overflow
            \* checks, and without them the seek goes back to the header just
            \* read and the recursion never ends
            IF psz < header_size /\ oc THEN Ret(st1, "Panic", "Unit", NoPage)
            ELSE IF fault = "skip" THEN propagate(st1)
            ELSE IF sc.of /\ oc THEN Ret(st2, "Panic", "Unit", NoPage)
            ELSE IF psz < header_size THEN Ret(st2, "Diverge", "Unit", NoPage)
            ELSE PageReader_read_next_page_filtered(
                     f, [st2 EXCEPT !.cursor = sc.v], flt, fault, oc)
       \* line 69: vec![0; page_size - header_size] underflows, or cannot be allocated
       ELSE IF psz < header_size THEN Ret(st1, "Panic", "Unit", NoPage)
       ELSE IF br.r = "Err" THEN propagate(st3)
       ELSE IF br.r = "None" THEN on_body_eof(st3)
       ELSE IF rc.of /\ oc THEN Ret(st3, "Panic", "Unit", NoPage)
       ELSE Ret([st3 EXCEPT !.cursor = rc.v], "Ok", "Some",
                [len |-> psz - header_size, header_data |-> header_data, at |-> st.pos]))

PageReader_read_next_page(f, st, fault, oc) ==
    PageReader_read_next_page_filtered(f, st, "all", fault, oc)

PageReader_read_page_at(f, st, offset, fault, oc) ==
    IF fault = "seek" THEN Ret(st, "Err", "Unit", NoPage)
    ELSE PageReader_read_next_page(f, [st EXCEPT !.pos = offset], fault, oc)

----------------------------------------------------------------------------
(* The stream reader as a state machine *)

ReaderState == [pos |-> pos, cursor |-> cursor, ended |-> ended]

NoOp == [page |-> NoPage, res |-> "Ok", ret |-> "Unit", pre |-> PageReader_new,
         flt |-> "all", fault |-> "none", op |-> "new", arg |-> 0]

ReadFaults == {"none", "header", "skip", "body"}

\* a call returns, or takes the thread down
Alive(r) == r.res \in {"Ok", "Err"}

Fault(fault) ==
    /\ fault # "none" => ~faulted
    /\ faulted' = (faulted \/ fault # "none")

Apply(op, arg, flt, fault, r) ==
    /\ pos' = r.st.pos
    /\ cursor' = r.st.cursor
    /\ ended' = r.st.ended
    /\ rlast' = [page |-> r.page, res |-> r.res, ret |-> r.ret, pre |-> ReaderState,
                 flt |-> flt, fault |-> fault,
                 op |-> op, arg |-> arg]

ReaderCall ==
    /\ mode = "reader" /\ ops < MaxOps
    /\ ops' = ops + 1
    /\ UNCHANGED <<overflow_checks, file, filter, yielded, trace>>
    /\ UNCHANGED allocVars
    /\ UNCHANGED pageVars

Seek ==
    /\ ReaderCall
    /\ \E offset \in SeekOffsets, fault \in {"none", "seek"} :
         LET r == PageReader_seek(ReaderState, offset, fault = "seek")
         IN Fault(fault) /\ Apply("seek", offset, "all", fault, r)
    /\ mode' = mode

SeekRelative ==
    /\ ReaderCall
    /\ \E offset \in RelativeOffsets, fault \in {"none", "seek"} :
         LET r == PageReader_seek_relative(ReaderState, offset, fault = "seek")
         IN Fault(fault) /\ Apply("seek_relative", offset, "all", fault, r)
    /\ mode' = mode

ReadPageAt ==
    /\ ReaderCall
    /\ \E offset \in SeekOffsets, fault \in ReadFaults \cup {"seek"} :
         LET r == PageReader_read_page_at(file, ReaderState, offset, fault, overflow_checks)
         IN /\ Fault(fault) /\ Apply("read_page_at", offset, "all", fault, r)
            /\ mode' = IF Alive(r) THEN mode ELSE "dead"

ReadNextPage ==
    /\ ReaderCall
    /\ \E fault \in ReadFaults :
         LET r == PageReader_read_next_page(file, ReaderState, fault, overflow_checks)
         IN /\ Fault(fault) /\ Apply("read_next_page", 0, "all", fault, r)
            /\ mode' = IF Alive(r) THEN mode ELSE "dead"

ReadNextPageFiltered ==
    /\ ReaderCall
    /\ \E flt \in Filters, fault \in ReadFaults :
         LET r == PageReader_read_next_page_filtered(
                      file, ReaderState, flt, fault, overflow_checks)
         IN /\ Fault(fault) /\ Apply("read_next_page_filtered", 0, flt, fault, r)
            /\ mode' = IF Alive(r) THEN mode ELSE "dead"

\* PageReader::into_iter, then with_filter
IntoIter ==
    /\ mode = "reader"
    /\ mode' = "iter"
    /\ \E flt \in Filters : filter' = flt
    /\ UNCHANGED <<overflow_checks, file, pos, cursor, ended, faulted, yielded, rlast, ops,
                   trace>>
    /\ UNCHANGED allocVars
    /\ UNCHANGED pageVars

\* line 112: (self.prerun)(self.reader.cursor)
PrerunEvent(c) == [cursor |-> c, ev |-> "prerun"]
\* a header read of read_next_page_filtered, with the cursor it started at
AttemptEvent(c) == [cursor |-> c, ev |-> "attempt"]

\* PageReaderIter::next: the hook, then the result of read_next_page_filtered, transposed
IterNext ==
    /\ mode = "iter"
    /\ \E fault \in ReadFaults :
         LET r == PageReader_read_next_page_filtered(
                      file, ReaderState, filter, fault, overflow_checks)
         IN /\ Fault(fault) /\ Apply("next", 0, filter, fault, r)
            /\ mode' = IF Alive(r) THEN mode ELSE "dead"
            /\ yielded' = IF r.res = "Err" THEN Append(yielded, [page |-> NoPage, kind |-> "Err"])
                          ELSE IF r.res = "Ok" /\ r.ret = "Some"
                               THEN Append(yielded, [page |-> r.page, kind |-> "Ok"])
                          ELSE yielded
            /\ trace' = <<PrerunEvent(cursor)>>
                           \o [i \in 1..Len(r.attempts) |-> AttemptEvent(r.attempts[i])]
    /\ UNCHANGED <<overflow_checks, file, filter, ops>>
    /\ UNCHANGED allocVars
    /\ UNCHANGED pageVars

----------------------------------------------------------------------------
(* Decoding one page, eagerly and lazily, as a state machine *)

MaxSlots == 2
MaxNext == 4

\* the line pointers a page is built from: <<lp_off, lp_flags, lp_len>>
SlotKinds ==
    {<<200, 1, 32>>,   \* Normal, header and 9 payload bytes, up to the end of the body
     <<100, 1, 23>>,   \* Normal, header only
     <<0, 0, 0>>,      \* Unused
     <<150, 3, 0>>,    \* Dead, without storage
     <<10, 1, 23>>,    \* Normal, offset inside the page header
     <<230, 1, 40>>,   \* Normal, runs past the end of the page
     <<200, 1, 10>>}   \* Normal, shorter than a tuple header

\* pd_pagesize_version of the pages: 256 bytes, and size 0 with version 4
PageSizeVersions == {256, 4}

\* pd_lower besides the end of the slot array: inside the header, not on a
\* slot boundary, beyond the page
OddLowers == {20, 26, 300}

ItemIdOf(k) == set_lp_len(set_lp_flags(set_lp_off(ItemIdData_default, k[1]), k[2]), k[3])

\* the bytes of the body: the slot array from body offset 0, and for each
\* slot the tuple bytes at lp_off - 24: t_xmin = slot number, t_ctid.ip_posid
\* = slot number, t_infomask2 = 7, and payload bytes 9
TupleByte(n, r) ==
    CASE r = 0 -> n
      [] r = 16 -> n
      [] r = 18 -> 7
      [] r >= 23 -> 9
      [] OTHER -> 0

BodyByte(slots, i) ==
    LET n == (i \div 4) + 1
        covering == {m \in 1..Len(slots) :
                        /\ slots[m][1] >= PageHeaderData_byte_size
                        /\ slots[m][1] - PageHeaderData_byte_size <= i
                        /\ i < slots[m][1] - PageHeaderData_byte_size + slots[m][3]}
    IN IF n <= Len(slots) THEN ItemIdData_encode(ItemIdOf(slots[n]))[(i % 4) + 1]
       ELSE IF covering # {}
            THEN LET m == CHOOSE m \in covering : \A q \in covering : q <= m
                 IN TupleByte(m, i - (slots[m][1] - PageHeaderData_byte_size))
       ELSE 0

RawPage(slots, lower, psv) ==
    LET h == [EmptyHeader EXCEPT !.pd_lower = lower, !.pd_upper = 100,
                                 !.pd_special = page_size([pd_pagesize_version |-> psv]),
                                 !.pd_pagesize_version = psv]
        n == IF page_size(h) < PageHeaderData_byte_size THEN 0
             ELSE page_size(h) - PageHeaderData_byte_size
        dom == {i \in 0..(n - 1) : BodyByte(slots, i) # 0}
    IN [head |-> PageHeaderData_encode(h),
        body |-> [len |-> n, nz |-> [i \in dom |-> BodyByte(slots, i)]],
        slots |-> slots]

RawPages ==
    {RawPage(slots, lower, psv) :
        slots \in SeqsUpTo(SlotKinds, MaxSlots), lower \in OddLowers, psv \in PageSizeVersions}
    \cup {RawPage(slots, PageHeaderData_byte_size + ItemIdData_byte_size * Len(slots), psv) :
            slots \in SeqsUpTo(SlotKinds, MaxSlots), psv \in PageSizeVersions}

NotRun == [v |-> <<>>, res |-> "NotRun", err |-> "none"]
NoIter == [cursor |-> 0, ret |-> "NoIter", at |-> 0]

\* Page::from_reader on the source
DecodeEager ==
    /\ eager = NotRun
    /\ eager' = Page_from_reader(raw, overflow_checks)
    /\ UNCHANGED <<overflow_checks, raw, lzy, iter, out, before, nexts, codec>>
    /\ UNCHANGED <<allocVars, readerVars>>

\* PageLazy::from_reader on the source
DecodeLazy ==
    /\ lzy = NotRun
    /\ lzy' = PageLazy_from_reader(raw, overflow_checks)
    /\ UNCHANGED <<overflow_checks, raw, eager, iter, out, before, nexts, codec>>
    /\ UNCHANGED <<allocVars, readerVars>>

\* PageLazy::iter_tuples: a fresh iterator replaces the one in hand
IterTuples ==
    /\ lzy.res = "Ok"
    /\ iter.ret # "Panic"
    /\ iter' = [cursor |-> PageLazy_iter_tuples.cursor, ret |-> "New", at |-> 0]
    /\ before' = out
    /\ out' = <<>>
    /\ UNCHANGED <<overflow_checks, raw, eager, lzy, nexts, codec>>
    /\ UNCHANGED <<allocVars, readerVars>>

\* PageLazyTuplesIter::next on the iterator in hand
TuplesNext ==
    /\ iter.ret \in {"New", "Some", "None"}
    /\ nexts < MaxNext
    /\ LET r == PageLazyTuplesIter_next(lzy.v, [cursor |-> iter.cursor], overflow_checks)
       IN /\ iter' = [cursor |-> r.it.cursor, ret |-> r.ret, at |-> iter.cursor]
          /\ out' = IF r.ret = "Some" THEN Append(out, r.y) ELSE out
    /\ nexts' = nexts + 1
    /\ UNCHANGED <<overflow_checks, raw, eager, lzy, before, codec>>
    /\ UNCHANGED <<allocVars, readerVars>>

----------------------------------------------------------------------------
(* The codec as a state machine: values are encoded and decoded *)

U8Values == {0, 7, 255}
U16Values == {0, 513, 65535}
U32Values == {<<0, 0>>, <<513, 1>>, <<65535, 65535>>}
U64Values == {<<0, 0, 0, 0>>, <<513, 1, 2, 3>>, <<65535, 65535, 65535, 65535>>}
BlockIdDataValues == [bi_hi : U16Values, bi_lo : U16Values]
ItemPointerDataValues == [ip_blkid : BlockIdDataValues, ip_posid : U16Values]
PageXLogRecPtrValues == [xlogid : U32Values, xrecoff : U32Values]
ItemIdDataValues == {ItemIdOf(k) : k \in SlotKinds \cup {<<3, 1, 2>>, <<32767, 3, 32767>>}}
PageHeaderDataValues ==
    [pd_lsn : {[xlogid |-> <<0, 0>>, xrecoff |-> <<0, 0>>],
               [xlogid |-> <<1, 0>>, xrecoff |-> <<2, 0>>],
               [xlogid |-> <<65535, 65535>>, xrecoff |-> <<65535, 65535>>]},
     pd_checksum : {0, 65535}, pd_flags : {0, 3, 65535}, pd_lower : {0, 4, 65535},
     pd_upper : {0, 65535}, pd_special : {0, 65535},
     pd_pagesize_version : {0, 8196, 65535}, pd_prune_xid : {<<0, 0>>, <<65535, 65535>>}]
HeapTupleHeaderDataValues ==
    [data : {<<>>, <<1, 2, 3, 4, 5>>, <<1, 2, 3, 4, 5, 6, 7>>},
     t_xmin : {<<1, 0>>, <<65535, 65535>>}, t_xmax : {<<0, 0>>, <<2, 0>>},
     t_field3 : {<<3, 0>>},
     t_infomask2 : {0, 7}, t_infomask : {0, 8}, t_hoff : {0, 9},
     t_ctid : {[ip_blkid |-> [bi_hi |-> 0, bi_lo |-> 0], ip_posid |-> 0],
               [ip_blkid |-> [bi_hi |-> 5, bi_lo |-> 6], ip_posid |-> 6]}]

FixedSizeTypes ==
    {"u8", "u16", "u32", "u64", "BlockIdData", "ItemPointerData", "PageXLogRecPtr",
     "ItemIdData", "PageHeaderData"}

Values(ty) ==
    CASE ty = "u8" -> U8Values
      [] ty = "u16" -> U16Values
      [] ty = "u32" -> U32Values
      [] ty = "u64" -> U64Values
      [] ty = "BlockIdData" -> BlockIdDataValues
      [] ty = "ItemPointerData" -> ItemPointerDataValues
      [] ty = "PageXLogRecPtr" -> PageXLogRecPtrValues
      [] ty = "ItemIdData" -> ItemIdDataValues
      [] ty = "PageHeaderData" -> PageHeaderDataValues
      [] ty = "HeapTupleHeaderData" -> HeapTupleHeaderDataValues

\* T::encode
Encode(ty, x) ==
    CASE ty = "u8" -> u8_encode(x)
      [] ty = "u16" -> u16_encode(x)
      [] ty = "u32" -> u32_encode(x)
      [] ty = "u64" -> u64_encode(x)
      [] ty = "BlockIdData" -> BlockIdData_encode(x)
      [] ty = "ItemPointerData" -> ItemPointerData_encode(x)
      [] ty = "PageXLogRecPtr" -> PageXLogRecPtr_encode(x)
      [] ty = "ItemIdData" -> ItemIdData_encode(x)
      [] ty = "PageHeaderData" -> PageHeaderData_encode(x)
      [] ty = "HeapTupleHeaderData" -> HeapTupleHeaderData_encode(x)

\* T::decode
Decode(ty, bytes) ==
    CASE ty = "u8" -> u8_decode(bytes)
      [] ty = "u16" -> u16_decode(bytes)
      [] ty = "u32" -> u32_decode(bytes)
      [] ty = "u64" -> u64_decode(bytes)
      [] ty = "BlockIdData" -> BlockIdData_decode(bytes)
      [] ty = "ItemPointerData" -> ItemPointerData_decode(bytes)
      [] ty = "PageXLogRecPtr" -> PageXLogRecPtr_decode(bytes)
      [] ty = "ItemIdData" -> ItemIdData_decode(bytes)
      [] ty = "PageHeaderData" -> PageHeaderData_decode(bytes)
      [] ty = "HeapTupleHeaderData" -> HeapTupleHeaderData_decode(bytes)

\* T::byte_size
ByteSize(ty) ==
    CASE ty = "u8" -> 1
      [] ty = "u16" -> 2
      [] ty = "u32" -> 4
      [] ty = "u64" -> 8
      [] ty = "BlockIdData" -> 4
      [] ty = "ItemPointerData" -> ItemPointerData_byte_size
      [] ty = "PageXLogRecPtr" -> 8
      [] ty = "ItemIdData" -> ItemIdData_byte_size
      [] ty = "PageHeaderData" -> PageHeaderData_byte_size
      [] ty = "HeapTupleHeaderData" -> HeapTupleHeaderData_byte_size

NoCodec == [bytes |-> <<>>, x |-> 0, op |-> "none", ty |-> "u8", back |-> NotRun]

\* one call on a fresh value
CodecCall ==
    /\ codec = NoCodec
    /\ UNCHANGED <<overflow_checks, raw, eager, lzy, iter, out, before, nexts>>
    /\ UNCHANGED <<allocVars, readerVars>>

\* decode(&x.encode()) for a value of a fixed-size type
RoundTrip ==
    /\ CodecCall
    /\ \E ty \in FixedSizeTypes : \E x \in Values(ty) :
         codec' = [bytes |-> Encode(ty, x), x |-> x, op |-> "roundtrip", ty |-> ty,
                   back |-> Decode(ty, Encode(ty, x))]

\* encode_into_writer into an empty Vec, then decode_from_reader on a Cursor over it
StreamRoundTrip ==
    /\ CodecCall
    /\ \E x \in PageHeaderDataValues :
         LET buf == PageHeaderData_encode_into_writer(x, <<>>)
         IN codec' = [bytes |-> buf, x |-> x, op |-> "stream", ty |-> "PageHeaderData",
                      back |-> PageHeaderData_decode_from_reader(buf)]

\* decode_from_reader on a Cursor over the first 10 bytes of an encoded header
StreamTruncated ==
    /\ CodecCall
    /\ \E x \in PageHeaderDataValues :
         LET buf == Sub(PageHeaderData_encode(x), 0, 10)
         IN codec' = [bytes |-> buf, x |-> x, op |-> "truncated", ty |-> "PageHeaderData",
                      back |-> PageHeaderData_decode_from_reader(buf)]

\* decode of a slice one byte shorter, or one byte longer, than an encoded value
DecodeWrongSize ==
    /\ CodecCall
    /\ \E ty \in FixedSizeTypes : \E x \in Values(ty) : \E op \in {"short", "long"} :
         LET b == IF op = "short" THEN Sub(Encode(ty, x), 0, Len(Encode(ty, x)) - 1)
                  ELSE Encode(ty, x) \o <<0>>
         IN codec' = [bytes |-> b, x |-> x, op |-> op, ty |-> ty, back |-> Decode(ty, b)]

\* decode(&t.encode()) for a tuple
TupleRoundTrip ==
    /\ CodecCall
    /\ \E t \in HeapTupleHeaderDataValues :
         codec' = [bytes |-> HeapTupleHeaderData_encode(t), x |-> t, op |-> "roundtrip",
                   ty |-> "HeapTupleHeaderData",
                   back |-> HeapTupleHeaderData_decode(HeapTupleHeaderData_encode(t))]

\* the line pointers the setters are applied to, the values they are given
\* and the orders they are called in
LpStarts == {ItemIdData_default, <<255, 255, 255, 255>>}
LpOffValues == {0, 3, 255, 256, 32767}
LpFlagsValues == 0..3
LpLenValues == {0, 2, 127, 128, 32767}
SetterOrders ==
    {<<"off", "flags", "len">>, <<"off", "len", "flags">>, <<"flags", "off", "len">>,
     <<"flags", "len", "off">>, <<"len", "off", "flags">>, <<"len", "flags", "off">>}

\* one setter call: set_lp_off, set_lp_flags or set_lp_len with its value of the triple
SetField(id, f, t) ==
    CASE f = "off" -> set_lp_off(id, t[1])
      [] f = "flags" -> set_lp_flags(id, t[2])
      [] f = "len" -> set_lp_len(id, t[3])

\* the three setters on a line pointer, then decode(&id.encode())
PackLinePointer ==
    /\ CodecCall
    /\ \E start \in LpStarts, order \in SetterOrders :
         \E off \in LpOffValues, flags \in LpFlagsValues, len \in LpLenValues :
           LET t == <<off, flags, len>>
               id == SetField(SetField(SetField(start, order[1], t), order[2], t), order[3], t)
           IN codec' = [bytes |-> ItemIdData_encode(id), x |-> t, op |-> "pack",
                        ty |-> "ItemIdData",
                        back |-> ItemIdData_decode(ItemIdData_encode(id))]

----------------------------------------------------------------------------
(* Specifications *)

InitAllocOn(l) ==
    /\ page = EmptyPage
    /\ lazy = l
    /\ calls = 0
    /\ panicked = FALSE
    /\ last = NoCall

InitAlloc == InitAllocOn(EmptyPageLazy)

InitReaderOn(f) ==
    /\ file = f
    /\ pos = PageReader_new.pos
    /\ cursor = PageReader_new.cursor
    /\ ended = PageReader_new.ended
    /\ mode = "reader"
    /\ filter = "all"
    /\ faulted = FALSE
    /\ yielded = <<>>
    /\ rlast = NoOp
    /\ ops = 0
    /\ trace = <<>>

InitPageOn(r) ==
    /\ raw = r
    /\ eager = NotRun
    /\ lzy = NotRun
    /\ iter = NoIter
    /\ out = <<>>
    /\ before = <<>>
    /\ nexts = 0
    /\ codec = NoCodec

NoRawPage == RawPage(<<>>, PageHeaderData_byte_size, EmptyPageSize)

\* the allocator, on its own
Init ==
    /\ overflow_checks \in BOOLEAN /\ InitReaderOn(<<>>) /\ InitPageOn(NoRawPage)
    /\ \E l \in LazyStarts : InitAllocOn(l)
Next == ReserveTuplePage \/ ReserveTupleLazy
Spec == Init /\ [][Next]_vars

\* the reader, with every operation
InitReader ==
    /\ overflow_checks \in BOOLEAN /\ InitAlloc /\ InitPageOn(NoRawPage)
    /\ \E f \in Files(MaxPages) : InitReaderOn(f)
NextReader ==
    \/ Seek \/ SeekRelative \/ ReadPageAt \/ ReadNextPage \/ ReadNextPageFiltered
    \/ IntoIter \/ IterNext
SpecReader == InitReader /\ [][NextReader]_vars

\* a new reader turned into an iterator and run
InitIter ==
    /\ overflow_checks \in BOOLEAN /\ InitAlloc /\ InitPageOn(NoRawPage)
    /\ \E f \in Files(MaxIterPages) : InitReaderOn(f)
NextIter == IntoIter \/ IterNext
SpecIter == InitIter /\ [][NextIter]_vars

\* one page, decoded eagerly and lazily and iterated
InitPage ==
    /\ overflow_checks \in BOOLEAN /\ InitAlloc /\ InitReaderOn(<<>>)
    /\ \E r \in RawPages : InitPageOn(r)
NextPage == DecodeEager \/ DecodeLazy \/ IterTuples \/ TuplesNext
SpecPage == InitPage /\ [][NextPage]_vars

\* values through the codec
InitCodec ==
    overflow_checks \in BOOLEAN /\ InitAlloc /\ InitReaderOn(<<>>) /\ InitPageOn(NoRawPage)
NextCodec ==
    RoundTrip \/ StreamRoundTrip \/ StreamTruncated \/ DecodeWrongSize \/ TupleRoundTrip
        \/ PackLinePointer
SpecCodec == InitCodec /\ [][NextCodec]_vars

\* a new reader turned into an iterator and run to its end, on sources that
\* may hold a header declaring a page size of 0
MaxStreamPages == 2
\* 24 bytes: a header with pd_pagesize_version = 0 and pd_flags = 1
ZeroSizeHeader == [size |-> 0, flags |-> 1, have |-> PageHeaderData_byte_size]
StreamFiles ==
    Files(MaxStreamPages) \cup {Append(q, ZeroSizeHeader) : q \in Files(MaxStreamPages - 1)}
InitStream ==
    /\ overflow_checks \in BOOLEAN /\ InitAlloc /\ InitPageOn(NoRawPage)
    /\ \E f \in {g \in StreamFiles : g = <<>> \/ IsComplete(SubSeq(g, 1, Len(g) - 1))} :
           InitReaderOn(f)
NextStream == IntoIter \/ IterNext
SpecStream == InitStream /\ [][NextStream]_vars

----------------------------------------------------------------------------
(* Claims about the allocator, checked under Spec *)

\* the length of the fixed part of an encoded tuple (HeapTupleHeaderData::decode)
FixedTupleHeaderSize == 23

\* the tuple size and the line-pointer width of the specification
SpecTupleSize(data_size) == FixedTupleHeaderSize + data_size
LinePointerSize == ItemIdData_byte_size

Succeeded == last.target # "none" /\ last.kind = "Some"
TheObject == IF last.target = "lazy" THEN lazy ELSE page

\* C1: starting from an empty page of size 8192, after every successful
\* reserve_tuple call, on Page and on PageLazy, pd_upper >= pd_lower.
C1_UpperNotBelowLower ==
    Succeeded => TheObject.header_data.pd_upper >= TheObject.header_data.pd_lower

\* a successful call that used the last byte of free space
C1_Witness ==
    /\ Succeeded
    /\ last.pre.pd_upper - last.pre.pd_lower > 0
    /\ TheObject.header_data.pd_upper = TheObject.header_data.pd_lower

SlotLo(id) == lp_off(id)
SlotHi(id) == lp_off(id) + lp_len(id)

\* C2: the byte range [lp_off, lp_off + lp_len) of every slot a successful call
\* returns lies inside the free space [lower, upper) that existed before the
\* call and is disjoint from the range of every slot returned earlier.
C2_NonOverlap ==
    (last.target = "page" /\ last.kind = "Some") =>
        /\ last.pre.pd_lower <= SlotLo(last.item)
        /\ SlotHi(last.item) <= last.pre.pd_upper
        /\ \A i \in 1..(Len(page.item_id_data) - 1) :
              \/ SlotHi(last.item) <= SlotLo(page.item_id_data[i])
              \/ SlotHi(page.item_id_data[i]) <= SlotLo(last.item)

\* C3: reserve_tuple returns "no space" exactly when
\* upper - lower < (23 + payload_size) + 4, and a slot in every other case.
C3_NoSpaceExactly ==
    (last.target # "none" /\ last.kind # "Panic") =>
        ((last.kind = "None") <=>
            (last.pre.pd_upper - last.pre.pd_lower
                 < SpecTupleSize(last.data_size) + LinePointerSize))

\* C4: the line pointer of a successful call is returned and appended to the
\* slot array with offset = upper before the call - tuple_size,
\* length = tuple_size and state Normal.
C4_LinePointer ==
    (last.target = "page" /\ last.kind = "Some") =>
        /\ page.item_id_data # <<>>
        /\ page.item_id_data[Len(page.item_id_data)] = last.item
        /\ lp_off(last.item) = last.pre.pd_upper - SpecTupleSize(last.data_size)
        /\ lp_len(last.item) = SpecTupleSize(last.data_size)
        /\ LpFlags(last.item) = "Normal"

\* C5: a successful call raises pd_lower by one line-pointer width (4),
\* lowers pd_upper by tuple_size and changes no other header field.
C5_HeaderUpdate ==
    Succeeded =>
        TheObject.header_data =
            [last.pre EXCEPT !.pd_lower = @ + LinePointerSize,
                             !.pd_upper = @ - SpecTupleSize(last.data_size)]

----------------------------------------------------------------------------
(* Claims about the stream reader *)

ReadOps == {"read_next_page", "read_next_page_filtered", "next"}

\* C6: once the reader has ended it stays ended, whatever operation follows,
\* and every read_next_page, read_next_page_filtered and iterator step on it
\* returns "no page" and leaves the source position and the cursor alone.
C6_EndedIsTerminal ==
    [][ended =>
          /\ ended'
          /\ (ReadNextPage \/ ReadNextPageFiltered \/ IterNext) =>
                /\ rlast'.res = "Ok" /\ rlast'.ret = "None"
                /\ pos' = pos /\ cursor' = cursor /\ yielded' = yielded]_vars

\* a read on an ended reader that had been moved back in front of unread input
C6_Witness ==
    /\ ended /\ rlast.pre.ended
    /\ rlast.op \in ReadOps
    /\ rlast.pre.pos < FileLen(file)
    /\ rlast.ret = "None"

\* where the first page attempt of the last call started
AttemptPos == IF rlast.op = "read_page_at" THEN rlast.arg ELSE rlast.pre.pos
AttemptHeader == PageHeaderData_decode_at(file, AttemptPos)

HeaderExhausted == AttemptPos >= FileLen(file)
BodyTruncated ==
    /\ AttemptPos + PageHeaderData_byte_size <= FileLen(file)
    /\ filter_accepts(rlast.flt, AttemptHeader)
    /\ page_size(AttemptHeader) >= PageHeaderData_byte_size
    /\ FileLen(file) < AttemptPos + page_size(AttemptHeader)

ReadWithoutFailure ==
    /\ rlast.op \in ReadOps \cup {"read_page_at"}
    /\ ~rlast.pre.ended
    /\ rlast.fault = "none"

\* C7: a read_next_page_filtered call that finds the source exhausted before
\* any header byte, or the body after a parsed header truncated, returns
\* Ok(no page), never an error, and leaves the reader ended.
C7_EofIsCleanEnd ==
    (ReadWithoutFailure /\ (HeaderExhausted \/ BodyTruncated)) =>
        (rlast.res = "Ok" /\ rlast.ret = "None" /\ ended)

\* a call that parsed a header and found part of the body only
C7_Witness ==
    /\ ReadWithoutFailure /\ BodyTruncated
    /\ rlast.op = "read_next_page_filtered"
    /\ AttemptPos + PageHeaderData_byte_size < FileLen(file)
    /\ rlast.ret = "None" /\ ended

\* the header a complete page of the file decodes to
SegHeader(g) ==
    [pd_lsn |-> [xlogid |-> <<0, 0>>, xrecoff |-> <<0, 0>>], pd_checksum |-> 0,
     pd_flags |-> g.flags, pd_lower |-> 0, pd_upper |-> 0, pd_special |-> 0,
     pd_pagesize_version |-> g.size, pd_prune_xid |-> <<0, 0>>]

\* the pages of f, from offset off on, that the predicate accepts, in file order
RECURSIVE AcceptedFrom(_, _, _)
AcceptedFrom(f, flt, off) ==
    IF f = <<>> THEN <<>>
    ELSE LET g == Head(f)
             rest == AcceptedFrom(Tail(f), flt, off + g.size)
         IN IF (flt = "all" \/ g.flags = 0)
            THEN <<[page |-> [len |-> g.size - PageHeaderData_byte_size, header_data |-> SegHeader(g),
                              at |-> off],
                    kind |-> "Ok"]>> \o rest
            ELSE rest

IsPrefix(a, b) == Len(a) <= Len(b) /\ a = SubSeq(b, 1, Len(a))

IterFinished == mode = "iter" /\ rlast.op = "next" /\ rlast.res = "Ok" /\ rlast.ret = "None"

RECURSIVE SumOfPageSizes(_)
SumOfPageSizes(f) == IF f = <<>> THEN 0 ELSE Head(f).size + SumOfPageSizes(Tail(f))

\* C8: over a file of complete pages the iterator yields the pages whose
\* header the predicate accepts, each once and in file order, nothing for a
\* rejected page, and has yielded all of them when it ends.
C8_IteratorYieldsAccepted ==
    (IsComplete(file) /\ ~faulted) =>
        /\ mode # "dead"
        /\ IsPrefix(yielded, AcceptedFrom(file, filter, 0))
        /\ IterFinished => yielded = AcceptedFrom(file, filter, 0)

\* five pages, the second and the fourth rejected, three yielded
C8_Witness ==
    /\ IsComplete(file) /\ ~faulted /\ IterFinished
    /\ Len(file) = 5
    /\ \A i \in 1..5 : (file[i].flags # 0) <=> (i \in {2, 4})
    /\ filter = "flags0"
    /\ Len(yielded) = 3

\* C9: when the iterator has consumed a file of complete pages from cursor 0,
\* the cursor is the sum of the page sizes of all its pages, rejected or not.
C9_CursorAfterConsumption ==
    (IsComplete(file) /\ ~faulted /\ IterFinished) => cursor = SumOfPageSizes(file)

\* an iteration that ended after rejecting some pages and yielding others
C9_Witness ==
    /\ IsComplete(file) /\ ~faulted /\ IterFinished
    /\ 0 < Len(yielded) /\ Len(yielded) < Len(file)
    /\ cursor = SumOfPageSizes(file)
    /\ cursor > 0

\* the cursor is a u64 held as its i64 view: c is the u64 value n exactly
\* when it is not negative
CursorIs(c, n) == c >= 0 /\ c = n

\* C10: after a successful seek(o) the cursor is o, after a successful
\* seek_relative(d) it is the previous cursor + d, and a seek that fails
\* leaves the cursor unchanged.
C10_SeekUpdatesCursor ==
    /\ (rlast.op = "seek" /\ rlast.res = "Ok") => CursorIs(cursor, rlast.arg)
    /\ (rlast.op = "seek_relative" /\ rlast.res = "Ok") =>
           CursorIs(cursor, rlast.pre.cursor + rlast.arg)
    /\ (rlast.op \in {"seek", "seek_relative"} /\ rlast.res = "Err") =>
           cursor = rlast.pre.cursor

\* C11: the pre-run hook is invoked with the reader's current cursor before
\* the header read of every page the reader tries to read, rejected pages
\* included: each header read of an iterator step directly follows a hook
\* call made with the cursor that read starts at.
C11_PrerunBeforeEachAttempt ==
    \A i \in 1..Len(trace) :
        trace[i].ev = "attempt" =>
            (i > 1 /\ trace[i - 1] = PrerunEvent(trace[i].cursor))

\* whether a read that starts at position p of f meets the failure `fault`:
\* the header read fails at once, the skip at the first rejected page, the
\* body read at the first accepted page, if the source holds their header
RECURSIVE FailureMet(_, _, _, _)
FailureMet(f, p, flt, fault) ==
    IF fault = "header" THEN TRUE
    ELSE IF FileLen(f) - p < PageHeaderData_byte_size THEN FALSE
    ELSE LET h == PageHeaderData_decode_at(f, p)
         IN IF page_size(h) < PageHeaderData_byte_size THEN FALSE
            ELSE IF filter_accepts(flt, h) THEN fault = "body"
            ELSE fault = "skip" \/ FailureMet(f, p + page_size(h), flt, fault)

ReadMetFailure ==
    /\ rlast.op \in ReadOps \cup {"read_page_at"}
    /\ ~rlast.pre.ended
    /\ rlast.fault \in {"header", "skip", "body"}
    /\ FailureMet(file, AttemptPos, rlast.flt, rlast.fault)

\* C12: an I/O failure while the reader reads a header, skips a rejected
\* page or reads a body is returned to the caller as an error: the call does
\* not return "no page" and does not end the reader, and an iterator step
\* yields the error.
C12_ErrorsPropagate ==
    /\ ReadMetFailure =>
          /\ rlast.res = "Err"
          /\ ~ended
          /\ rlast.op = "next" => (yielded # <<>> /\ yielded[Len(yielded)].kind = "Err")
    /\ (rlast.op \in ReadOps \cup {"read_page_at"} /\ rlast.res = "Err") =>
          (ended = rlast.pre.ended)

\* a body read that failed after a rejected page had been skipped
C12_Witness ==
    /\ ReadMetFailure
    /\ rlast.fault = "body"
    /\ rlast.op = "read_next_page_filtered"
    /\ ~filter_accepts(rlast.flt, AttemptHeader)
    /\ rlast.res = "Err" /\ ~ended

----------------------------------------------------------------------------
(* Claims about the decoding of one page, checked under SpecPage *)

RawHeader == PageHeaderData_decode(raw.head).v
HeaderSize == PageHeaderData_byte_size

IterStepped == iter.ret \in {"Some", "None", "Panic"}
LastOut == out[Len(out)]

\* C13: the lazy tuple iterator starts at cursor 0, every step that yields
\* an item, an error item included, advances the cursor by 4, so an
\* iterator yields at most (lower - 24) / 4 items; and a fresh iterator
\* yields the same sequence again.
C13_FiniteRestartable ==
    /\ iter.ret = "New" => iter.cursor = 0
    /\ iter.ret = "Some" => iter.cursor = iter.at + ItemIdData_byte_size
    /\ (lzy.res = "Ok" /\ RawHeader.pd_lower >= HeaderSize) =>
           Len(out) <= (RawHeader.pd_lower - HeaderSize) \div ItemIdData_byte_size
    /\ IsPrefix(out, before) \/ IsPrefix(before, out)

\* the line pointer the last step looked at, read from the source
SlotAt(c) == ItemIdData_decode(Slice(raw.body, c, c + ItemIdData_byte_size)).v
RangeOutside(id) ==
    \/ lp_off(id) < HeaderSize
    \/ lp_off(id) - HeaderSize + lp_len(id) > lzy.v.data.len
LookedAtSlot ==
    /\ IterStepped
    /\ RawHeader.pd_lower >= HeaderSize
    /\ iter.at < RawHeader.pd_lower - HeaderSize
    /\ iter.at + ItemIdData_byte_size <= lzy.v.data.len

\* C14: a step of the lazy iterator on a line pointer whose tuple range
\* [lp_off - 24, lp_off - 24 + lp_len) is not inside the body, or on a page
\* whose lower is below 24, yields an insufficient-bytes error item, and no
\* step panics.
C14_OutOfRangeIsErrorItem ==
    IterStepped =>
        /\ iter.ret # "Panic"
        /\ (RawHeader.pd_lower < HeaderSize \/ (LookedAtSlot /\ RangeOutside(SlotAt(iter.at)))) =>
               (iter.ret = "Some" /\ LastOut = YieldErr("NotEnoughBytes"))

\* a page as the format describes it: the slot array ends at lower, a Normal
\* slot holds a whole tuple inside the body and behind the slot array, any
\* other slot has no storage
WellFormedSlot(k, lower, psz) ==
    IF k[2] = 1 THEN lower <= k[1] /\ k[1] + k[3] <= psz /\ k[3] >= 23
    ELSE k[3] = 0
WellFormed ==
    /\ page_size(RawHeader) >= HeaderSize
    /\ RawHeader.pd_lower = HeaderSize + ItemIdData_byte_size * Len(raw.slots)
    /\ RawHeader.pd_lower <= page_size(RawHeader)
    /\ \A i \in 1..Len(raw.slots) :
          WellFormedSlot(raw.slots[i], RawHeader.pd_lower, page_size(RawHeader))

\* the tuples, and the line pointers, of what the lazy iterator yielded
RECURSIVE NormalTuples(_)
NormalTuples(ys) ==
    IF ys = <<>> THEN <<>>
    ELSE IF Head(ys).kind = "Ok" /\ LpFlags(Head(ys).id) = "Normal"
         THEN <<Head(ys).item>> \o NormalTuples(Tail(ys))
    ELSE NormalTuples(Tail(ys))
YieldedIds(ys) == [i \in 1..Len(ys) |-> ys[i].id]

\* C15: for a well-formed page both decodes succeed, the tuples the lazy
\* iterator yields for Normal slots are the eager items, in order, and the
\* line pointers of the two decodes are equal.
C15_LazyEqualsEager ==
    (WellFormed /\ eager # NotRun /\ lzy # NotRun) =>
        /\ eager.res = "Ok" /\ lzy.res = "Ok"
        /\ iter.ret # "Panic"
        /\ \A i \in 1..Len(out) : out[i].kind = "Ok"
        /\ IsPrefix(NormalTuples(out), eager.v.items)
        /\ IsPrefix(YieldedIds(out), eager.v.item_id_data)
        /\ iter.ret = "None" =>
              /\ NormalTuples(out) = eager.v.items
              /\ YieldedIds(out) = eager.v.item_id_data

\* the slot array of the source and its Normal slots, in slot order
RawSlotCount == (RawHeader.pd_lower - HeaderSize) \div ItemIdData_byte_size
RawSlot(i) == SlotAt(ItemIdData_byte_size * (i - 1))
RECURSIVE NormalFrom(_)
NormalFrom(i) ==
    IF i > RawSlotCount THEN <<>>
    ELSE IF LpFlags(RawSlot(i)) = "Normal" THEN <<RawSlot(i)>> \o NormalFrom(i + 1)
    ELSE NormalFrom(i + 1)
TupleOf(id) ==
    HeapTupleHeaderData_decode(
        Slice(raw.body, lp_off(id) - HeaderSize, lp_off(id) - HeaderSize + lp_len(id))).v

\* C16: a successful eager decode holds every line pointer of the slot
\* array, one tuple for each Normal one and none for the others, the i-th
\* tuple decoded from the body bytes [lp_off - 24, lp_off - 24 + lp_len) of
\* the i-th Normal slot.
C16_EagerNormalOnly ==
    eager.res = "Ok" =>
        /\ eager.v.item_id_data = [i \in 1..RawSlotCount |-> RawSlot(i)]
        /\ Len(eager.v.items) = Len(NormalFrom(1))
        /\ \A i \in 1..Len(eager.v.items) : eager.v.items[i] = TupleOf(NormalFrom(1)[i])

\* a decode that skipped an Unused slot and read a tuple with payload
C16_Witness ==
    /\ eager.res = "Ok"
    /\ RawSlotCount = 2
    /\ LpFlags(RawSlot(1)) = "Unused"
    /\ Len(eager.v.items) = 1
    /\ Len(eager.v.items[1].data) = 9
    /\ eager.v.items[1].t_xmin = <<2, 0>>

\* a slice computation of the eager decode that runs out of bounds
EagerOutOfBounds ==
    \/ page_size(RawHeader) < HeaderSize
    \/ RawHeader.pd_lower < HeaderSize
    \/ RawHeader.pd_lower > page_size(RawHeader)
    \/ \E i \in 1..RawSlotCount :
          /\ LpFlags(RawSlot(i)) = "Normal"
          /\ \/ lp_off(RawSlot(i)) < HeaderSize
             \/ lp_off(RawSlot(i)) - HeaderSize + lp_len(RawSlot(i)) > raw.body.len

\* C17: Page::from_reader never panics, and it returns an insufficient-bytes
\* error when a slice computation would run out of bounds: page_size < 24,
\* lower < 24, lower beyond the body, a Normal slot with lp_off < 24 or
\* with lp_off - 24 + lp_len beyond the body.
C17_EagerNeverPanics ==
    eager # NotRun =>
        /\ eager.res # "Panic"
        /\ EagerOutOfBounds => (eager.res = "Err" /\ eager.err = "NotEnoughBytes")

----------------------------------------------------------------------------
(* Claims about the codec, checked under SpecCodec *)

RoundTripTypes ==
    {"u8", "u16", "u32", "u64", "BlockIdData", "ItemPointerData", "PageXLogRecPtr",
     "PageHeaderData"}

CameBack == codec.back.res = "Ok" /\ codec.back.v = codec.x

\* C18: for every value x of u8, u16, u32, u64, BlockIdData, ItemPointerData,
\* PageXLogRecPtr and PageHeaderData decode(encode(x)) = x; a PageHeaderData
\* also comes back through encode_into_writer and decode_from_reader; and
\* decode_from_reader on the first 10 of the 24 header bytes fails.
C18_FixedSizeRoundTrip ==
    /\ (codec.op = "roundtrip" /\ codec.ty \in RoundTripTypes) =>
           (Len(codec.bytes) = ByteSize(codec.ty) /\ CameBack)
    /\ codec.op = "stream" => CameBack
    /\ codec.op = "truncated" => codec.back.res = "Err"

\* a header with every field at its maximum, through the writer and the reader
C18_Witness ==
    /\ codec.op = "stream"
    /\ codec.x.pd_lsn.xlogid = <<65535, 65535>>
    /\ codec.x.pd_pagesize_version = 65535
    /\ codec.x.pd_prune_xid = <<65535, 65535>>
    /\ codec.bytes = [i \in 1..24 |-> 255]
    /\ CameBack

\* the 23-byte fixed prefix of a tuple, then its payload
SpecTupleBytes(t) ==
    u32_to_le_bytes(t.t_xmin) \o u32_to_le_bytes(t.t_xmax) \o u32_to_le_bytes(t.t_field3)
        \o u16_to_le_bytes(t.t_ctid.ip_blkid.bi_hi) \o u16_to_le_bytes(t.t_ctid.ip_blkid.bi_lo)
        \o u16_to_le_bytes(t.t_ctid.ip_posid)
        \o u16_to_le_bytes(t.t_infomask2) \o u16_to_le_bytes(t.t_infomask) \o <<t.t_hoff>>
        \o t.data

\* C19: for every tuple t, decode(encode(t)) = t, and encode(t) is the
\* 23-byte prefix xmin, xmax, field3, item pointer, infomask2, infomask,
\* hoff followed by the payload bytes.
C19_TupleRoundTrip ==
    (codec.op = "roundtrip" /\ codec.ty = "HeapTupleHeaderData") =>
        /\ codec.bytes = SpecTupleBytes(codec.x)
        /\ CameBack

\* C20: decode of a slice one byte shorter than the fixed size of the type
\* returns an insufficient-bytes error, decode of a slice one byte longer an
\* excess-bytes error; neither panics and neither succeeds.
C20_SizeEnforced ==
    /\ codec.op = "short" => (codec.back.res = "Err" /\ codec.back.err = "NotEnoughBytes")
    /\ codec.op = "long" => (codec.back.res = "Err" /\ codec.back.err = "TooManyBytes")

FlagNames == <<"Unused", "Normal", "Redirect", "Dead">>

\* C21: after set_lp_off, set_lp_flags and set_lp_len (in any order, on any
\* line pointer) with an offset in 0..32767, a state in 0..3 and a length in
\* 0..32767, encode gives the 4 little-endian bytes of
\* offset + 2^15 * state + 2^17 * length, decode of them gives back the
\* same triple, and flags() names state 0, 1, 2, 3 Unused, Normal, Redirect, Dead.
C21_LinePointerPacking ==
    codec.op = "pack" =>
        /\ Len(codec.bytes) = 4
        /\ u32_from_le_bytes(codec.bytes)
             = <<codec.x[1] + 32768 * (codec.x[2] % 2), (codec.x[2] \div 2) + 2 * codec.x[3]>>
        /\ codec.back.res = "Ok"
        /\ <<lp_off(codec.back.v), lp_flags(codec.back.v), lp_len(codec.back.v)>> = codec.x
        /\ LpFlags(codec.back.v) = FlagNames[codec.x[2] + 1]

\* the triple of test_offset_length_pair, and the largest triple set over all-ones bytes
C21_Witness ==
    /\ codec.op = "pack"
    /\ codec.x \in {<<3, 1, 2>>, <<32767, 2, 32767>>}
    /\ codec.bytes \in {<<3, 128, 4, 0>>, <<255, 127, 255, 255>>}
    /\ LpFlags(codec.back.v) \in {"Normal", "Redirect"}

\* the header the last call found satisfied 24 <= lower <= upper <= page_size
PreWellFormed ==
    /\ last.target # "none"
    /\ PageHeaderData_byte_size <= last.pre.pd_lower
    /\ last.pre.pd_lower <= last.pre.pd_upper
    /\ last.pre.pd_upper <= page_size(last.pre)

\* C22: on a page with 24 <= lower <= upper <= page_size, reserve_tuple with
\* any payload size returns a slot or "no space": tuple_size + the line
\* pointer width and upper - tuple_size stay within u16, the offset and
\* the length stored in the slot are the untruncated values, and the
\* assertion upper >= lower does not fail.
C22_ArithmeticSafe ==
    PreWellFormed =>
        LET ts == tuple_size_of(last.data_size)
        IN /\ last.kind \in {"Some", "None"}
           /\ ~ts.of
           /\ ~space_needed(ts.v).of
           /\ last.kind = "Some" =>
                  /\ ~U16Sub(last.pre.pd_upper, ts.v).of
                  /\ lp_off(last.item) = last.pre.pd_upper - ts.v
                  /\ lp_len(last.item) = ts.v

\* C23: a reserve_tuple call that returns "no space" leaves the Page and
\* the PageLazy as they were: header, slot array, tuples and raw body.
C23_NoSpaceLeavesPage ==
    [][(calls' # calls /\ last'.kind = "None") => (page' = page /\ lazy' = lazy)]_vars

\* "no space" from a PageLazy with enough free space whose body cannot take
\* the slot bytes
C23_Witness ==
    /\ last.target = "lazy" /\ last.kind = "None"
    /\ last.pre.pd_upper - last.pre.pd_lower >= last.data_size + ItemPointerData_byte_size
    /\ lazy.header_data = last.pre

\* a call on a reader whose cursor was the position of its source returned
\* Ok and left the reader Active
SucceededInStep ==
    /\ mode = "reader" /\ rlast.op # "new"
    /\ rlast.res = "Ok" /\ ~ended
    /\ rlast.pre.cursor = rlast.pre.pos

\* C24: every successful seek, seek_relative, read_next_page_filtered and
\* read_page_at call that leaves the reader Active keeps the cursor equal to
\* the position of the underlying source; after read_page_at(o) returns a
\* page of size s the cursor is o + s.
C24_CursorIsPosition ==
    SucceededInStep =>
        /\ CursorIs(cursor, pos)
        /\ (rlast.op = "read_page_at" /\ rlast.ret = "Some") =>
               CursorIs(cursor, rlast.arg + PageHeaderData_byte_size + rlast.page.len)

\* the last call was made on a PageLazy that had room for the tuple and its
\* line pointer
LazyHadRoom ==
    /\ last.target = "lazy" /\ PreWellFormed
    /\ tuple_size_of(last.data_size).v + ItemPointerData_byte_size
           <= last.pre.pd_upper - last.pre.pd_lower
    /\ last.data_size < 2^15

\* the number of slots iter_tuples visits before it returns None
SlotsVisited(h) == (h.pd_lower - PageHeaderData_byte_size + ItemIdData_byte_size - 1)
                       \div ItemIdData_byte_size
\* the body index of the end of the slot array
SlotArrayEnd(h) == h.pd_lower - PageHeaderData_byte_size

\* C25: a reserve_tuple call on a PageLazy with room returns a slot without
\* panicking, the 4 encoded bytes of that slot are in the body at the end
\* of the slot array as it was before the call, iter_tuples visits one
\* more slot than before, and the line pointer of that last slot is the
\* one returned.
C25_LazySlotWritten ==
    LazyHadRoom =>
        /\ last.kind = "Some"
        /\ Slice(lazy.data, SlotArrayEnd(last.pre), SlotArrayEnd(last.pre) + ItemIdData_byte_size)
               = ItemIdData_encode(last.item)
        /\ SlotsVisited(lazy.header_data) = SlotsVisited(last.pre) + 1
        /\ ItemIdData_decode(Slice(lazy.data,
                                   ItemIdData_byte_size * (SlotsVisited(lazy.header_data) - 1),
                                   ItemIdData_byte_size * SlotsVisited(lazy.header_data)))
               = Ok(last.item)

\* the number of header reads the last next() call made
Attempts == Len(trace) - 1

\* C26: on every finite source and with every filter, each next() call
\* returns, and a call that leaves the reader Active has consumed at least
\* the 24 bytes of a header for each page it tried, so that the calls of a
\* finite source run out and the reader reaches Ended.
C26_StreamEnds ==
    rlast.op = "next" =>
        /\ rlast.res \in {"Ok", "Err"}
        /\ (rlast.res = "Ok" /\ ~ended) =>
               pos - rlast.pre.pos >= PageHeaderData_byte_size * Attempts

====
